---- MODULE Spec2Model ----
(***************************************************************************)
(* CryWatchdog: the asset reference index (app/watcher.py), the format     *)
(* handlers it drives (app/asset_handlers.py) and the writer they use      *)
(* (app/utils.py), as a state machine.                                     *)
(*                                                                         *)
(* A path or a reference string is a sequence of atoms: directory and file *)
(* names, the separator "/", and an extension such as ".dds".  An atom     *)
(* that contains an upper-case letter has a lower-case twin (Lower).       *)
(* A container's content is a sequence of tokens: an attribute holding a   *)
(* quoted value, a line ending, or other text.                             *)
(***************************************************************************)
EXTENDS Integers, Sequences, FiniteSets, TLC

VARIABLES
    disk,                     \* container path -> content on disk, or Absent
    reference_to_containers,  \* reverse map: reference key -> set of container paths
    container_to_references,  \* forward map: container path -> set of reference keys
    write_cooldowns,          \* AssetReferenceIndex._write_cooldowns: path -> deadline (0: no entry)
    last_deleted,             \* ChangeHandler._last_deleted: basename -> <<path, time>>
    now,                      \* time.time(), in whole seconds
    options,                  \* settings["watcher_options"], the kwargs of AssetReferenceIndex
    pc,                       \* WatcherService._run: the position of its thread, "indexing" until build_index returned, then "watching"
    handled,                  \* the event the observer thread dispatched last, NoEvent once the tree or the clock changed
    attempt,                  \* _index_parse_worker: its file and the pass of its retry loop, pass 0 while no parse is running
    aw,                       \* atomic_write: the call in progress (its arguments and its position)
    rw,                       \* AssetHandler.rewrite: the call in progress (its arguments and its position)
    lock,                     \* AssetReferenceIndex._lock, and where the handler on the observer thread stands: whether it holds the lock, and which tables its last statement read and wrote
    stop_event,               \* WatcherService.stop_event
    observer,                 \* WatcherService.observer: the watchdog thread, its stop flag, a handler in flight
    last_signal,              \* the lifecycle signal the session emitted last
    stopped_count,            \* how often the session emitted watcherStopped
    caller,                   \* the GUI thread's position inside WatcherService.stop
    sessions                  \* how often WatcherService.start started a thread

\* the index, the tree and the event handler
indexVars == <<disk, reference_to_containers, container_to_references, write_cooldowns,
               last_deleted, now, options, pc, handled>>

\* the watcher service around them
serviceVars == <<stop_event, observer, last_signal, stopped_count, caller, sessions>>

vars == <<indexVars, attempt, aw, rw, lock, serviceVars>>

----------------------------------------------------------------------------
(* Bounds of the model *)

\* the clock stops at MaxTime
MaxTime == 2

\* how many of the UserContents a user may save into a container
NumContents == 4

----------------------------------------------------------------------------
(* Program constants *)

\* watcher.py:202 and :243, time.time() + 2.0
T_COOLDOWN == 2

\* watcher.py:323, time.time() - del_time < 1.0
T_MOVE_RECON == 1

\* config.py:24-37 (the texture aliases of the model; ".tiff" is one of the
\* texture extensions that config.py:39-60 does not track)
TEXTURE_EXTENSIONS == {".dds", ".tif", ".tiff"}

\* config.py:39-60 (the tracked extensions of the model)
TRACKED_ASSET_EXTENSIONS == {".dds", ".tif", ".mtl", ".lyr", ".cgf"}

\* asset_handlers.py:212-219, extension -> handler
ASSET_HANDLERS == [e \in {".mtl", ".lyr"} |-> "XmlAssetHandler"]

\* os.linesep and os.path.sep: the host is POSIX, a line ending is written as "\n"
\* and str.replace(os.path.sep, "/") changes nothing
linesep == "LF"

\* every extension atom: Path.suffix is the last atom when it is one of these
Suffixes == TRACKED_ASSET_EXTENSIONS \cup TEXTURE_EXTENSIONS \cup {".tmp", ".txt"}

----------------------------------------------------------------------------
(* Strings *)

\* str.lower on one atom
Lower(ch) == CASE ch = "Wall" -> "wall"
               [] ch = "Tex"  -> "tex"
               [] OTHER       -> ch

\* str.lower
lower(s) == [i \in DOMAIN s |-> Lower(s[i])]

\* str.strip: leading and trailing blanks removed
RECURSIVE strip(_)
strip(s) ==
    IF s = <<>> THEN s
    ELSE IF Head(s) = " " THEN strip(Tail(s))
    ELSE IF s[Len(s)] = " " THEN strip(SubSeq(s, 1, Len(s) - 1))
    ELSE s

\* Path.suffix
suffix(p) == IF p # <<>> /\ p[Len(p)] \in Suffixes THEN p[Len(p)] ELSE ""

\* Path.with_suffix("").as_posix() followed by f"{stem}{ext}"; ext "" adds nothing
with_suffix(p, ext) ==
    LET stem == IF suffix(p) # "" THEN SubSeq(p, 1, Len(p) - 1) ELSE p
    IN  IF ext = "" THEN stem ELSE Append(stem, ext)

\* Path.name: the atoms after the last "/"
RECURSIVE name(_)
name(p) ==
    IF \E i \in DOMAIN p : p[i] = "/" THEN name(Tail(p)) ELSE p

\* str.startswith
startswith(s, prefix) ==
    Len(s) >= Len(prefix) /\ SubSeq(s, 1, Len(prefix)) = prefix

----------------------------------------------------------------------------
(* Content of a container *)

\* no file at the path
Absent == <<[k |-> "absent", v |-> <<>>]>>

Attr(v) == [k |-> "attr", v |-> v]       \* Texture="v"  (File=, Material=, ...)
Text    == [k |-> "text", v |-> <<"x">>]  \* bytes that hold no reference
Eol(e)  == [k |-> "eol",  v |-> <<e>>]    \* a line ending, "LF" or "CRLF"

\* _BYTES_REGEX and pattern_str: KEY = QUOTE value QUOTE where the value ends,
\* case-insensitively, in a tracked extension
RegexMatches(tok) ==
    tok.k = "attr" /\ suffix(lower(tok.v)) \in TRACKED_ASSET_EXTENSIONS

\* XmlAssetHandler.parse of a readable, non-empty file
parse(content) ==
    { lower(strip(content[i].v)) : i \in { j \in DOMAIN content : RegexMatches(content[j]) } }

\* read_text(): text mode with universal newlines, every line ending reads as "\n"
read_text(content) ==
    [i \in DOMAIN content |->
        IF content[i].k = "eol" THEN Eol("LF") ELSE content[i]]

\* open(temp_path, "w", newline=None).write(): every "\n" is written as os.linesep
write_text(text, sep) ==
    [i \in DOMAIN text |->
        IF text[i].k = "eol" THEN Eol(sep) ELSE text[i]]

\* replacements_lower[k] for the key k, replacements a set of <<old, new>> pairs
replacements_lower(replacements, k) ==
    LET hits == { r \in replacements : lower(r[1]) = k }
    IN  IF hits = {} THEN <<>> ELSE (CHOOSE r \in hits : TRUE)[2]

\* replace_callback: the new value of one matched attribute, <<>> to keep it
replace_callback(old_path, replacements, is_dir_move) ==
    LET old_path_norm  == strip(old_path)
        old_path_lower == lower(old_path_norm)
    IN  IF is_dir_move
        THEN LET r == CHOOSE x \in replacements : TRUE
                 old_dir == r[1]
                 new_dir == r[2]
             IN  IF startswith(old_path_lower, lower(old_dir) \o <<"/">>)
                 THEN new_dir \o SubSeq(old_path_norm, Len(old_dir) + 1, Len(old_path_norm))
                 ELSE <<>>
        ELSE replacements_lower(replacements, old_path_lower)

\* pattern.sub(replace_callback, content)
sub(text, replacements, is_dir_move) ==
    [i \in DOMAIN text |->
        IF RegexMatches(text[i])
        THEN LET new_val == replace_callback(text[i].v, replacements, is_dir_move)
             IN  IF new_val # <<>> THEN Attr(new_val) ELSE text[i]
        ELSE text[i]]

\* LuaAssetHandler.rewrite.replacer: the new value of one matched string
\* literal, <<>> to keep it; the path is not stripped
replacer(path, replacements, is_dir_move) ==
    LET path_norm  == path
        path_lower == lower(path_norm)
    IN  IF is_dir_move
        THEN LET r == CHOOSE x \in replacements : TRUE
                 old_dir == r[1]
                 new_dir == r[2]
             IN  IF startswith(path_lower, lower(old_dir) \o <<"/">>)
                 THEN new_dir \o SubSeq(path_norm, Len(old_dir) + 1, Len(path_norm))
                 ELSE <<>>
        ELSE replacements_lower(replacements, path_lower)

\* LuaAssetHandler._TEXT_REGEX.sub(replacer, content): in a Lua file a token
\* "attr" is a quoted string literal
lua_sub(text, replacements, is_dir_move) ==
    [i \in DOMAIN text |->
        IF RegexMatches(text[i])
        THEN LET new_path == replacer(text[i].v, replacements, is_dir_move)
             IN  IF new_path # <<>> THEN Attr(new_path) ELSE text[i]
        ELSE text[i]]

\* the content is written whether it differs or not
content_changed_always(new_content, original_content) == TRUE

\* if new_content != original_content
content_changed(new_content, original_content) == new_content # original_content

\* XmlAssetHandler.rewrite: what the file holds afterwards
rewrite(content, replacements, is_dir_move, sep) ==
    IF content = Absent THEN Absent              \* read_text raises, caught and logged
    ELSE LET original_content == read_text(content)
             new_content      == sub(original_content, replacements, is_dir_move)
         IN  IF new_content # original_content
             THEN write_text(new_content, sep)   \* atomic_write(file_path, new_content)
             ELSE content

----------------------------------------------------------------------------
(* The files and the events of the model *)

Mat      == <<"mat", ".mtl">>
Level    == <<"level", ".lyr">>
WallDds  == <<"tex", "/", "wall", ".dds">>
WallCase == <<"Tex", "/", "Wall", ".dds">>
StoneDds == <<"tex", "/", "stone", ".dds">>
WallTif  == <<"tex", "/", "wall", ".tif">>
StoneTif == <<"tex", "/", "stone", ".tif">>
WallTiff == <<"tex", "/", "wall", ".tiff">>
StoneTiff == <<"tex", "/", "stone", ".tiff">>
DoorMtl  == <<"mats", "/", "door", ".mtl">>
GateMtl  == <<"mats", "/", "gate", ".mtl">>
Door     == <<"mats", "/", "door">>
Gate     == <<"mats", "/", "gate">>
TexDir   == <<"tex">>
ArtDir   == <<"art">>

\* the container files of the project tree
Files == {Mat, Level}

\* what a user may save into a container, the first NumContents of them
UserContents == <<
    <<Attr(WallDds), Eol("LF")>>,
    <<Attr(WallCase), Eol("CRLF")>>,
    <<Attr(Door), Attr(DoorMtl)>>,
    <<>>,
    <<Attr(StoneDds), Attr(WallTif)>>,
    <<Text, Attr(GateMtl)>> >>

Contents == { UserContents[i] : i \in 1..NumContents } \ {Absent}

\* renames of tracked assets a user may do
FileMoves == { <<WallDds, StoneDds>>, <<StoneDds, WallDds>>, <<DoorMtl, GateMtl>> }

\* renames of directories a user may do
DirMoves == { <<TexDir, ArtDir>> }

NoEvent == [type |-> "none", src_path |-> <<>>, dest_path |-> <<>>, is_directory |-> FALSE]

FileEvent(t, p) == [type |-> t, src_path |-> p, dest_path |-> <<>>, is_directory |-> FALSE]

MovedEvent(s, d, dir) == [type |-> "moved", src_path |-> s, dest_path |-> d, is_directory |-> dir]

----------------------------------------------------------------------------
(* AssetReferenceIndex *)

\* the state the index operations read and write
IndexState == [rev |-> reference_to_containers, fwd |-> container_to_references,
               disk |-> disk, cd |-> write_cooldowns]

\* dict.get(abs_path, 0)
CooldownOf(cd, p) == IF p \in DOMAIN cd THEN cd[p] ELSE 0

\* is_on_cooldown with the comparison turned round: a path counts as cooling down
\* only once its deadline has passed
is_on_cooldown_flipped(S, abs_path) == now > CooldownOf(S.cd, abs_path)

\* is_on_cooldown
is_on_cooldown(S, abs_path) == now < CooldownOf(S.cd, abs_path)

DiskAt(d, p) == IF p \in DOMAIN d THEN d[p] ELSE Absent

\* a file _index_parse_worker can read: it exists and is not empty
Readable(d, c) == d[c] # Absent /\ Len(d[c]) > 0

\* _index_parse_worker: rel # <<>> names the file, ok says the read succeeded
index_parse_worker(d, file_path) ==
    IF Lower(suffix(file_path)) \notin DOMAIN ASSET_HANDLERS
    THEN [rel |-> <<>>, ok |-> FALSE, refs |-> {}]
    ELSE IF DiskAt(d, file_path) # Absent /\ Len(DiskAt(d, file_path)) > 0
         THEN [rel |-> file_path, ok |-> TRUE, refs |-> parse(DiskAt(d, file_path))]
         ELSE [rel |-> file_path, ok |-> FALSE, refs |-> {}]

\* the discard forgotten: the container stays in the reverse entries of the
\* references it no longer holds
DiscardContainerStale(rev, c, refs) == rev

\* the discard without the "if not ...: del" that follows it: an entry left empty stays
DiscardContainerKeepEmpty(rev, c, refs) ==
    [r \in DOMAIN rev |-> IF r \in refs THEN rev[r] \ {c} ELSE rev[r]]

\* lines 121-125 and 143-147: the container leaves the reverse entry of each of
\* its references, and an entry left empty is deleted
DiscardContainer(rev, c, refs) ==
    LET hit(r)  == r \in refs /\ rev[r] # {}
        left(r) == IF hit(r) THEN rev[r] \ {c} ELSE rev[r]
        keep    == { r \in DOMAIN rev : ~(hit(r) /\ left(r) = {}) }
    IN  [r \in keep |-> left(r)]

\* lines 95-96 and 128-129: reference_to_containers[ref].add(container)
AddContainer(rev, c, refs) ==
    [r \in DOMAIN rev \cup refs |->
        (IF r \in DOMAIN rev THEN rev[r] ELSE {}) \cup (IF r \in refs THEN {c} ELSE {})]

Restrict(f, keys) == [k \in keys |-> f[k]]

Put(f, k, v) == [x \in DOMAIN f \cup {k} |-> IF x = k THEN v ELSE f[x]]

\* build_index
RECURSIVE Populate(_, _, _)
Populate(S, todo, d) ==
    IF todo = {} THEN S
    ELSE LET c == CHOOSE x \in todo : TRUE
             r == index_parse_worker(d, c)
         IN  Populate([S EXCEPT !.fwd = Put(S.fwd, c, r.refs),
                                !.rev = AddContainer(S.rev, c, r.refs)],
                      todo \ {c}, d)

build_index(S) ==
    LET container_files == { p \in DOMAIN S.disk :
                               S.disk[p] # Absent /\ Lower(suffix(p)) \in DOMAIN ASSET_HANDLERS }
        parsed == { p \in container_files :
                      index_parse_worker(S.disk, p).rel # <<>> /\ index_parse_worker(S.disk, p).ok }
    IN  IF container_files = {} THEN S
        ELSE Populate([S EXCEPT !.rev = << >>, !.fwd = << >>], parsed, S.disk)

\* process_container_file
process_container_file(S, container_abs_path) ==
    LET result == index_parse_worker(S.disk, container_abs_path)
        c      == result.rel
        rev1   == IF c \in DOMAIN S.fwd THEN DiscardContainer(S.rev, c, S.fwd[c])
                  ELSE S.rev
    IN  IF is_on_cooldown(S, container_abs_path) THEN S
        ELSE IF c = <<>> \/ ~result.ok THEN S
        ELSE [S EXCEPT !.fwd = Put(S.fwd, c, result.refs),
                       !.rev = AddContainer(rev1, c, result.refs)]

\* remove_container_from_index
remove_container_from_index(S, container_abs_path) ==
    LET c == container_abs_path
    IN  IF is_on_cooldown(S, container_abs_path) THEN S
        ELSE IF c = <<>> THEN S
        ELSE IF c \in DOMAIN S.fwd
             THEN [S EXCEPT !.fwd = Restrict(S.fwd, DOMAIN S.fwd \ {c}),
                            !.rev = DiscardContainer(S.rev, c, S.fwd[c])]
             ELSE S

\* lines 205-209: each old variant found in the reverse map is popped and its
\* containers are added under every new variant
RECURSIVE MoveReverse(_, _, _)
MoveReverse(rev, old_variants, new_variants) ==
    IF old_variants = {} THEN rev
    ELSE LET old_v == CHOOSE x \in old_variants : TRUE
             rest  == old_variants \ {old_v}
         IN  IF old_v \in DOMAIN rev
             THEN LET containers_to_move == rev[old_v]
                      popped == Restrict(rev, DOMAIN rev \ {old_v})
                      added  == [r \in DOMAIN popped \cup new_variants |->
                                   (IF r \in DOMAIN popped THEN popped[r] ELSE {})
                                   \cup (IF r \in new_variants THEN containers_to_move ELSE {})]
                  IN  MoveReverse(added, rest, new_variants)
             ELSE MoveReverse(rev, rest, new_variants)

\* lines 158-179: the <<old, new>> pairs of replacements, in the case of the event's paths
Replacements(old_rel_path, new_rel_path, opts) ==
    LET is_texture == Lower(suffix(old_rel_path)) \in TEXTURE_EXTENSIONS
        base == IF opts.match_any_texture_extension /\ is_texture
                THEN { <<with_suffix(old_rel_path, ext), with_suffix(new_rel_path, ext)>> :
                         ext \in TEXTURE_EXTENSIONS }
                ELSE { <<old_rel_path, new_rel_path>> }
        mtl  == IF Lower(suffix(old_rel_path)) = ".mtl"
                THEN { <<with_suffix(old_rel_path, ""), with_suffix(new_rel_path, "")>> }
                ELSE {}
    IN  base \cup mtl

\* update_asset_path that gives up the whole rename when one container fails
update_asset_path_halting(S, old_abs_path, new_abs_path, opts, sep) ==
    LET replacements == Replacements(old_abs_path, new_abs_path, opts)
        old_variants == { lower(r[1]) : r \in replacements }
        affected_containers ==
            UNION { S.rev[v] : v \in old_variants \cap DOMAIN S.rev }
    IN  IF old_abs_path = <<>> \/ new_abs_path = <<>> THEN S
        ELSE IF \E c \in affected_containers : DiskAt(S.disk, c) = Absent THEN S
        ELSE [S EXCEPT !.disk = [p \in DOMAIN S.disk |->
                                   IF p \in affected_containers
                                   THEN rewrite(S.disk[p], replacements, FALSE, sep)
                                   ELSE S.disk[p]]]

\* update_asset_path
update_asset_path(S, old_abs_path, new_abs_path, opts, sep) ==
    LET replacements == Replacements(old_abs_path, new_abs_path, opts)
        old_variants == { lower(r[1]) : r \in replacements }
        new_variants == { lower(r[2]) : r \in replacements }
        affected_containers ==
            UNION { S.rev[v] : v \in old_variants \cap DOMAIN S.rev }
        patched == { c \in affected_containers : Lower(suffix(c)) \in DOMAIN ASSET_HANDLERS }
    IN  IF old_abs_path = <<>> \/ new_abs_path = <<>> THEN S
        ELSE IF affected_containers = {} THEN S
        ELSE [rev  |-> MoveReverse(S.rev, old_variants, new_variants),
              fwd  |-> [c \in DOMAIN S.fwd |->
                          IF c \in affected_containers
                          THEN (S.fwd[c] \ old_variants) \cup new_variants
                          ELSE S.fwd[c]],
              disk |-> [p \in DOMAIN S.disk |->
                          IF p \in patched
                          THEN rewrite(S.disk[p], replacements, FALSE, sep)
                          ELSE S.disk[p]],
              cd   |-> [p \in DOMAIN S.cd \cup patched |->
                          IF p \in patched THEN now + T_COOLDOWN ELSE S.cd[p]]]

\* handle_directory_move gets as far as lines 245-247: it emits indexingStarted,
\* rebuilds and emits indexingFinished
directory_move_rebuilds(S, event, opts) ==
    /\ event.type = "moved" /\ event.is_directory
    /\ opts.allow_dir_change
    /\ event.src_path # <<>> /\ event.dest_path # <<>>
    /\ \E c \in DOMAIN S.fwd : \E r \in S.fwd[c] :
          startswith(lower(r), lower(event.src_path) \o <<"/">>)

\* handle_directory_move
handle_directory_move(S, old_dir_abs, new_dir_abs, opts, sep) ==
    LET prefix == lower(old_dir_abs) \o <<"/">>
        affected_containers ==
            { c \in DOMAIN S.fwd : \E r \in S.fwd[c] : startswith(lower(r), prefix) }
        patched == { c \in affected_containers : Lower(suffix(c)) \in DOMAIN ASSET_HANDLERS }
        replacements == { <<old_dir_abs, new_dir_abs>> }
        written == [S EXCEPT
                      !.disk = [p \in DOMAIN S.disk |->
                                  IF p \in patched
                                  THEN rewrite(S.disk[p], replacements, TRUE, sep)
                                  ELSE S.disk[p]],
                      !.cd   = [p \in DOMAIN S.cd \cup patched |->
                                  IF p \in patched THEN now + T_COOLDOWN ELSE S.cd[p]]]
    IN  IF ~opts.allow_dir_change THEN S
        ELSE IF old_dir_abs = <<>> \/ new_dir_abs = <<>> THEN S
        ELSE IF affected_containers = {} THEN S
        ELSE build_index(written)

----------------------------------------------------------------------------
(* ChangeHandler *)

container_exts == DOMAIN ASSET_HANDLERS

tracked_exts == TRACKED_ASSET_EXTENSIONS

\* on_created without the test of the age of the deletion
on_created_stale(S, ld, event, opts, sep) ==
    LET path     == event.src_path
        filename == name(path)
        recon    == filename \in DOMAIN ld
        S1 == IF recon /\ Lower(suffix(path)) \in tracked_exts
              THEN update_asset_path(S, ld[filename][1], path, opts, sep)
              ELSE S
        ld1 == IF recon THEN Restrict(ld, DOMAIN ld \ {filename}) ELSE ld
        S2 == IF Lower(suffix(path)) \in container_exts /\ ~is_on_cooldown(S1, path)
              THEN process_container_file(S1, path)
              ELSE S1
    IN  IF event.is_directory THEN <<S, ld>> ELSE <<S2, ld1>>

\* on_created: <<index state, _last_deleted>> afterwards
on_created(S, ld, event, opts, sep) ==
    LET path     == event.src_path
        filename == name(path)
        recon    == filename \in DOMAIN ld /\ now - ld[filename][2] < T_MOVE_RECON
        S1 == IF recon /\ Lower(suffix(path)) \in tracked_exts
              THEN update_asset_path(S, ld[filename][1], path, opts, sep)
              ELSE S
        ld1 == IF recon THEN Restrict(ld, DOMAIN ld \ {filename}) ELSE ld
        S2 == IF Lower(suffix(path)) \in container_exts /\ ~is_on_cooldown(S1, path)
              THEN process_container_file(S1, path)
              ELSE S1
    IN  IF event.is_directory THEN <<S, ld>> ELSE <<S2, ld1>>

\* on_modified
on_modified(S, ld, event, opts, sep) ==
    LET path == event.src_path
    IN  IF event.is_directory THEN <<S, ld>>
        ELSE IF Lower(suffix(path)) \in container_exts /\ ~is_on_cooldown(S, path)
             THEN <<process_container_file(S, path), ld>>
             ELSE <<S, ld>>

\* on_deleted
on_deleted(S, ld, event, opts, sep) ==
    LET path == event.src_path
        ld1  == IF Lower(suffix(path)) \in tracked_exts \/ Lower(suffix(path)) \in container_exts
                THEN Put(ld, name(path), <<path, now>>)
                ELSE ld
        S1   == IF Lower(suffix(path)) \in container_exts /\ ~is_on_cooldown(S, path)
                THEN remove_container_from_index(S, path)
                ELSE S
    IN  IF event.is_directory THEN <<S, ld>> ELSE <<S1, ld1>>

\* on_moved with the extension tests made on the destination
on_moved_by_dest(S, ld, event, opts, sep) ==
    LET src_path  == event.src_path
        dest_path == event.dest_path
        S1 == IF Lower(suffix(dest_path)) \in tracked_exts
              THEN update_asset_path(S, src_path, dest_path, opts, sep)
              ELSE S
        S2 == IF Lower(suffix(dest_path)) \in container_exts /\ ~is_on_cooldown(S1, dest_path)
              THEN process_container_file(remove_container_from_index(S1, src_path), dest_path)
              ELSE S1
    IN  IF event.is_directory
        THEN <<handle_directory_move(S, src_path, dest_path, opts, sep), ld>>
        ELSE <<S2, ld>>

\* on_moved
on_moved(S, ld, event, opts, sep) ==
    LET src_path  == event.src_path
        dest_path == event.dest_path
        S1 == IF Lower(suffix(src_path)) \in tracked_exts
              THEN update_asset_path(S, src_path, dest_path, opts, sep)
              ELSE S
        S2 == IF Lower(suffix(src_path)) \in container_exts /\ ~is_on_cooldown(S1, dest_path)
              THEN process_container_file(remove_container_from_index(S1, src_path), dest_path)
              ELSE S1
    IN  IF event.is_directory
        THEN <<handle_directory_move(S, src_path, dest_path, opts, sep), ld>>
        ELSE <<S2, ld>>

\* FileSystemEventHandler.dispatch
dispatch(S, ld, event, opts, sep) ==
    CASE event.type = "created"  -> on_created(S, ld, event, opts, sep)
      [] event.type = "modified" -> on_modified(S, ld, event, opts, sep)
      [] event.type = "deleted"  -> on_deleted(S, ld, event, opts, sep)
      [] event.type = "moved"    -> on_moved(S, ld, event, opts, sep)

----------------------------------------------------------------------------
(* The watcher and its environment *)

\* the events a session sees: a user saves, creates and deletes Mat, saves Level,
\* renames assets and directories
Events ==
    { FileEvent(t, Mat) : t \in {"created", "modified", "deleted"} }
    \cup { FileEvent("modified", Level) }
    \cup { MovedEvent(m[1], m[2], FALSE) : m \in FileMoves }
    \cup { MovedEvent(m[1], m[2], TRUE) : m \in DirMoves }

\* no parse and no atomic_write is in progress
NoWrite == [pc |-> "idle"]

NoParse == [pass |-> 0, file_path |-> <<>>]

NoRewrite == [pc |-> "idle"]

\* no handler runs and _lock is free
Unlocked == [pc |-> "idle", held |-> FALSE, event |-> NoEvent, seen |-> << >>,
             reads |-> {}, writes |-> {}]

NothingRunning == attempt = NoParse /\ aw = NoWrite /\ rw = NoRewrite /\ lock = Unlocked

NewObserver == [state |-> "new", stopped |-> FALSE, handling |-> NoEvent]

\* WatcherService.start was called once and _run, lines 276-281, has created the
\* observer and the index and emitted indexingStarted
ServiceIndexing ==
    /\ stop_event = FALSE
    /\ observer = NewObserver
    /\ last_signal = "indexingStarted"
    /\ stopped_count = 0
    /\ caller = "idle"
    /\ sessions = 1

\* main_window.py:138-142, the defaults of the four option check boxes
DefaultOptions == [match_any_texture_extension |-> TRUE, allow_ext_change |-> TRUE,
                   allow_dir_change |-> TRUE, dry_run |-> FALSE]

\* the option sets a session is started with: the defaults, every patching option
\* switched off, and the defaults with "Dry Run" ticked
OptionSets ==
    { DefaultOptions,
      [match_any_texture_extension |-> FALSE, allow_ext_change |-> FALSE,
       allow_dir_change |-> FALSE, dry_run |-> FALSE],
      [DefaultOptions EXCEPT !.dry_run = TRUE] }

\* WatcherService.start on a project tree: AssetReferenceIndex.__init__ has run
Init ==
    /\ disk \in [Files -> Contents \cup {Absent}]
    /\ reference_to_containers = << >>
    /\ container_to_references = << >>
    /\ write_cooldowns = << >>
    /\ last_deleted = << >>
    /\ now = 0
    /\ options \in OptionSets
    /\ pc = "indexing"
    /\ handled = NoEvent
    /\ NothingRunning
    /\ ServiceIndexing

\* a user or an editor writes a container file
UserSave(c, content) ==
    /\ disk[c] # content
    /\ disk' = [disk EXCEPT ![c] = content]
    /\ handled' = NoEvent
    /\ UNCHANGED <<reference_to_containers, container_to_references, write_cooldowns,
                   last_deleted, now, options, pc>>
    /\ UNCHANGED <<attempt, rw, lock, aw, serviceVars>>

\* a user removes a container file
UserDelete(c) ==
    /\ disk[c] # Absent
    /\ disk' = [disk EXCEPT ![c] = Absent]
    /\ handled' = NoEvent
    /\ UNCHANGED <<reference_to_containers, container_to_references, write_cooldowns,
                   last_deleted, now, options, pc>>
    /\ UNCHANGED <<attempt, rw, lock, aw, serviceVars>>

\* a second passes; while no cooldown and no reconstruction window is open the
\* clock is left alone, as nothing reads it
Tick ==
    /\ now < MaxTime
    /\ \/ \E p \in DOMAIN write_cooldowns : now < write_cooldowns[p]
       \/ \E f \in DOMAIN last_deleted : now - last_deleted[f][2] < T_MOVE_RECON
    /\ now' = now + 1
    /\ handled' = NoEvent
    /\ UNCHANGED <<disk, reference_to_containers, container_to_references, write_cooldowns,
                   last_deleted, options, pc>>
    /\ UNCHANGED <<attempt, rw, lock, aw, serviceVars>>

\* WatcherService._run, lines 278-291, while no stop is requested: the initial
\* build, indexingFinished, then the observer starts
RunBuildIndex ==
    /\ pc = "indexing"
    /\ ~stop_event
    /\ \E S \in {build_index(IndexState)} :
           /\ reference_to_containers' = S.rev
           /\ container_to_references' = S.fwd
    /\ pc' = "watching"
    /\ last_signal' = "indexingFinished"
    /\ observer' = [observer EXCEPT !.state = "alive"]
    /\ UNCHANGED <<disk, write_cooldowns, last_deleted, now, options, handled>>
    /\ UNCHANGED <<attempt, rw, lock, aw, stop_event, stopped_count, caller, sessions>>

\* the observer thread hands one event to the ChangeHandler
Dispatch(event) ==
    /\ pc = "watching"
    /\ attempt = NoParse
    /\ \E r \in {dispatch(IndexState, last_deleted, event, options, linesep)} :
           /\ reference_to_containers' = r[1].rev
           /\ container_to_references' = r[1].fwd
           /\ disk' = r[1].disk
           /\ write_cooldowns' = r[1].cd
           /\ last_deleted' = r[2]
    /\ handled' = event
    /\ last_signal' = IF directory_move_rebuilds(IndexState, event, options)
                      THEN "indexingFinished" ELSE last_signal
    /\ UNCHANGED <<now, options, pc>>
    /\ UNCHANGED <<attempt, rw, lock, aw, stop_event, observer, stopped_count, caller, sessions>>

Next ==
    \/ \E content \in Contents : UserSave(Mat, content)
    \/ UserDelete(Mat)
    \/ Tick
    \/ RunBuildIndex
    \/ \E event \in Events : Dispatch(event)

Spec == Init /\ [][Next]_vars

-----------------------------------------------------------------------------
(* The retry loop of _index_parse_worker, pass by pass: the file may change
   between two passes *)

\* watcher.py:34, range(10)
MaxAttempts == 10

\* the loop runs one pass too many
in_range_eleven(n) == n \in 1..(MaxAttempts + 1)

\* for _ in range(10): pass n of the loop runs
in_range(n) == n \in 1..MaxAttempts

\* on_modified, lines 332-337, and process_container_file, lines 105-108: the
\* handler enters _index_parse_worker
UpsertBegin(event) ==
    /\ pc = "watching"
    /\ attempt = NoParse
    /\ event.type = "modified" /\ ~event.is_directory
    /\ Lower(suffix(event.src_path)) \in container_exts
    /\ ~is_on_cooldown(IndexState, event.src_path)
    /\ Lower(suffix(event.src_path)) \in DOMAIN ASSET_HANDLERS
    /\ attempt' = [pass |-> 1, file_path |-> event.src_path]
    /\ handled' = event
    /\ UNCHANGED <<disk, reference_to_containers, container_to_references, write_cooldowns,
                   last_deleted, now, options, pc, aw, rw, lock, serviceVars>>

\* lines 35-40, one pass: a file that exists and is not empty is parsed and
\* process_container_file, lines 110-129, stores the result; otherwise the
\* worker sleeps and the next pass follows
UpsertAttempt ==
    /\ in_range(attempt.pass)
    /\ IF Readable(disk, attempt.file_path)
       THEN /\ \E S \in {process_container_file(IndexState, attempt.file_path)} :
                  /\ reference_to_containers' = S.rev
                  /\ container_to_references' = S.fwd
            /\ attempt' = NoParse
       ELSE /\ attempt' = [attempt EXCEPT !.pass = @ + 1]
            /\ UNCHANGED <<reference_to_containers, container_to_references>>
    /\ UNCHANGED <<disk, write_cooldowns, last_deleted, now, options, pc, handled, aw, rw, lock,
                   serviceVars>>

\* lines 42-45: the loop is over, the worker returns (rel_path, None) and
\* process_container_file returns at line 117
UpsertGiveUp ==
    /\ attempt.pass > 0 /\ ~in_range(attempt.pass)
    /\ attempt' = NoParse
    /\ UNCHANGED <<indexVars, aw, rw, lock, serviceVars>>

NextRetry ==
    \/ \E content \in Contents : UserSave(Mat, content)
    \/ UserDelete(Mat)
    \/ RunBuildIndex
    \/ UpsertBegin(FileEvent("modified", Mat))
    \/ UpsertAttempt
    \/ UpsertGiveUp

SpecRetry == Init /\ [][NextRetry]_vars

\* the handler thread is never suspended for good: a pass, with its sleep of
\* 0.05 s, and the return after the loop do happen
SpecRetryFair == SpecRetry /\ WF_vars(UpsertAttempt \/ UpsertGiveUp)


-----------------------------------------------------------------------------
(* atomic_write, statement by statement, with the failures of each statement *)

\* the path is rewritten in place, without a temp file
temp_path_in_place(file_path, impl) == file_path

\* file_path.with_suffix(file_path.suffix + ".tmp") in app/utils.py,
\* with_suffix(f"{file_path.suffix}.{pid}.tmp") in app/core/utils.py
temp_path(file_path, impl) ==
    IF impl = "core" THEN file_path \o <<".pid", ".tmp">> ELSE Append(file_path, ".tmp")

\* the kinds of data: str, bytes, ET._ElementTree, and anything else
DataKinds == {"str", "bytes", "tree", "other"}

Implementations == {"app", "core"}

\* what the temp file holds once the data is written completely
NewContent(a) == IF a.kind = "str" THEN write_text(a.data, linesep) ELSE a.data

\* what a write that fails midway leaves behind: the file is created and
\* holds a proper prefix of the data
Partial(content) == { SubSeq(content, 1, n) : n \in 0..(Len(content) - 1) }

WriteFiles == {Mat} \cup { temp_path(Mat, impl) : impl \in Implementations }

\* a temp file a killed run left behind
Stale == <<Text>>

InitWrite ==
    /\ disk \in { d \in [WriteFiles -> Contents \cup {Absent, Stale}] :
                    /\ d[Mat] # Stale
                    /\ \A impl \in Implementations : d[temp_path(Mat, impl)] \in {Absent, Stale} }
    /\ reference_to_containers = << >>
    /\ container_to_references = << >>
    /\ write_cooldowns = << >>
    /\ last_deleted = << >>
    /\ now = 0
    /\ options = DefaultOptions
    /\ pc = "indexing"
    /\ handled = NoEvent
    /\ NothingRunning
    /\ ServiceIndexing

\* the call: temp_path is computed, the try block is entered
AwCall(file_path, data, kind, impl) ==
    /\ aw = NoWrite
    /\ aw' = [pc |-> "prepare", file_path |-> file_path, data |-> data, kind |-> kind,
              impl |-> impl, old |-> disk[file_path]]
    /\ UNCHANGED <<indexVars, attempt, rw, lock, serviceVars>>

\* "Prepare temp file": the data is written to the temp file; open() may fail,
\* the write may fail midway, data of another type raises TypeError
AwPrepare ==
    /\ aw.pc = "prepare"
    /\ \E temp \in {temp_path(aw.file_path, aw.impl)} :
         \/ /\ aw.kind # "other"
            /\ disk' = [disk EXCEPT ![temp] = NewContent(aw)]
            /\ aw' = [aw EXCEPT !.pc = "ensure"]
         \/ /\ aw.kind # "other"
            /\ \E part \in Partial(NewContent(aw)) : disk' = [disk EXCEPT ![temp] = part]
            /\ aw' = [aw EXCEPT !.pc = "except"]
         \/ /\ disk' = disk
            /\ aw' = [aw EXCEPT !.pc = "except"]
    /\ UNCHANGED <<reference_to_containers, container_to_references, write_cooldowns,
                   last_deleted, now, options, pc, handled, attempt, rw, lock, serviceVars>>

\* "if file_path.exists(): ensure_writable(file_path)": it changes the mode of
\* the target, never its content; subprocess.run may raise
AwEnsure ==
    /\ aw.pc = "ensure"
    /\ \/ aw' = [aw EXCEPT !.pc = "replace"]
       \/ /\ disk[aw.file_path] # Absent
          /\ aw' = [aw EXCEPT !.pc = "except"]
    /\ UNCHANGED <<indexVars, attempt, rw, lock, serviceVars>>

\* os.replace(temp_path, file_path): the rename, or its failure
AwReplace ==
    /\ aw.pc = "replace"
    /\ \E temp \in {temp_path(aw.file_path, aw.impl)} :
         \/ /\ disk' = [[disk EXCEPT ![aw.file_path] = disk[temp]] EXCEPT ![temp] = Absent]
            /\ aw' = [aw EXCEPT !.pc = "done"]
         \/ /\ disk' = disk
            /\ aw' = [aw EXCEPT !.pc = "except"]
    /\ UNCHANGED <<reference_to_containers, container_to_references, write_cooldowns,
                   last_deleted, now, options, pc, handled, attempt, rw, lock, serviceVars>>

\* except Exception: the temp file is unlinked if it exists, the error is raised again
AwExcept ==
    /\ aw.pc = "except"
    /\ disk' = [disk EXCEPT ![temp_path(aw.file_path, aw.impl)] = Absent]
    /\ aw' = [aw EXCEPT !.pc = "raised"]
    /\ UNCHANGED <<reference_to_containers, container_to_references, write_cooldowns,
                   last_deleted, now, options, pc, handled, attempt, rw, lock, serviceVars>>

\* the call is over, by return or by the error
AwReturn ==
    /\ aw.pc \in {"done", "raised"}
    /\ aw' = NoWrite
    /\ UNCHANGED <<indexVars, attempt, rw, lock, serviceVars>>

NextWrite ==
    \/ \E data \in Contents, kind \in DataKinds, impl \in Implementations :
          AwCall(Mat, data, kind, impl)
    \/ AwPrepare
    \/ AwEnsure
    \/ AwReplace
    \/ AwExcept
    \/ AwReturn

SpecWrite == InitWrite /\ [][NextWrite]_vars

-----------------------------------------------------------------------------
(* WatcherService: the GUI thread in start and stop, the thread of _run, and
   the observer thread, statement by statement *)

\* sessions the GUI starts
MaxSessions == 2

NoObserver == [state |-> "none", stopped |-> FALSE, handling |-> NoEvent]

\* the run thread never waits for the observer
observer_is_alive_never(obs) == FALSE

\* self.observer.is_alive()
observer_is_alive(obs) == obs.state = "alive"

\* a run thread that never sees the stop request
is_set_never(ev) == FALSE

\* self.stop_event.is_set()
is_set(ev) == ev

\* WatcherService.is_alive
is_alive == pc \notin {"idle", "dead"}

\* after __init__: no thread, no observer
InitService ==
    /\ disk \in [Files -> Contents \cup {Absent}]
    /\ reference_to_containers = << >>
    /\ container_to_references = << >>
    /\ write_cooldowns = << >>
    /\ last_deleted = << >>
    /\ now = 0
    /\ options \in OptionSets
    /\ pc = "idle"
    /\ handled = NoEvent
    /\ NothingRunning
    /\ stop_event = FALSE
    /\ observer = NoObserver
    /\ last_signal = "none"
    /\ stopped_count = 0
    /\ caller = "idle"
    /\ sessions = 0

\* start, lines 258-263: a session begins
Start ==
    /\ caller = "idle"
    /\ ~is_alive
    /\ sessions < MaxSessions
    /\ stop_event' = FALSE
    /\ pc' = "begin"
    /\ sessions' = sessions + 1
    /\ last_signal' = "none"
    /\ stopped_count' = 0
    /\ UNCHANGED <<disk, reference_to_containers, container_to_references, write_cooldowns,
                   last_deleted, now, options, handled, attempt, rw, lock, aw, observer, caller>>

\* stop, lines 266-267
StopSetEvent ==
    /\ caller = "idle"
    /\ stop_event' = IF is_alive THEN TRUE ELSE stop_event
    /\ caller' = "stop_observer"
    /\ UNCHANGED <<indexVars, attempt, rw, lock, aw, observer, last_signal, stopped_count, sessions>>

\* stop, lines 268-269: observer.stop() unschedules the watches and tells the
\* observer thread to end
StopObserver ==
    /\ caller = "stop_observer"
    /\ IF observer.state = "none"
       THEN caller' = "idle" /\ observer' = observer
       ELSE caller' = "join" /\ observer' = [observer EXCEPT !.stopped = TRUE]
    /\ UNCHANGED <<indexVars, attempt, rw, lock, aw, stop_event, last_signal, stopped_count, sessions>>

\* stop, line 270: join returns once the observer thread has ended, and raises
\* RuntimeError on a thread that was never started
StopJoin ==
    /\ caller = "join"
    /\ ~observer_is_alive(observer)
    /\ caller' = "idle"
    /\ UNCHANGED <<indexVars, attempt, rw, lock, aw, stop_event, observer, last_signal, stopped_count,
                   sessions>>

\* _run, lines 276-281: the observer and the index are created
RunBegin ==
    /\ pc = "begin"
    /\ observer' = NewObserver
    /\ last_signal' = "indexingStarted"
    /\ reference_to_containers' = << >>
    /\ container_to_references' = << >>
    /\ write_cooldowns' = << >>
    /\ pc' = "indexing"
    /\ UNCHANGED <<disk, last_deleted, now, options, handled, attempt, rw, lock, aw, stop_event,
                   stopped_count, caller, sessions>>

\* line 282
SvcBuild ==
    /\ pc = "indexing"
    /\ \E S \in {build_index(IndexState)} :
           /\ reference_to_containers' = S.rev
           /\ container_to_references' = S.fwd
    /\ pc' = "built"
    /\ UNCHANGED <<disk, write_cooldowns, last_deleted, now, options, handled, attempt, rw, lock, aw,
                   serviceVars>>

\* lines 283-287: a stop requested during the build ends the thread, otherwise
\* indexingFinished is emitted and the handler is created
SvcContinue ==
    /\ pc = "built"
    /\ IF is_set(stop_event)
       THEN pc' = "finally" /\ UNCHANGED <<last_signal, last_deleted>>
       ELSE pc' = "starting" /\ last_signal' = "indexingFinished" /\ last_deleted' = << >>
    /\ UNCHANGED <<disk, reference_to_containers, container_to_references, write_cooldowns,
                   now, options, handled, attempt, rw, lock, aw, stop_event, observer, stopped_count,
                   caller, sessions>>

\* lines 288-291: schedule and observer.start()
SvcObserverStart ==
    /\ pc = "starting"
    /\ observer' = [observer EXCEPT !.state = "alive"]
    /\ pc' = "watching"
    /\ UNCHANGED <<disk, reference_to_containers, container_to_references, write_cooldowns,
                   last_deleted, now, options, handled, attempt, rw, lock, aw, stop_event, last_signal, stopped_count,
                   caller, sessions>>

\* lines 292-293: the loop ends once the event is set
SvcLoopExit ==
    /\ pc = "watching"
    /\ is_set(stop_event)
    /\ pc' = "finally"
    /\ UNCHANGED <<disk, reference_to_containers, container_to_references, write_cooldowns,
                   last_deleted, now, options, handled, attempt, rw, lock, aw, serviceVars>>

\* lines 294-296: the build or schedule raised
SvcCrash ==
    /\ pc \in {"indexing", "starting"}
    /\ last_signal' = "criticalError"
    /\ pc' = "finally"
    /\ UNCHANGED <<disk, reference_to_containers, container_to_references, write_cooldowns,
                   last_deleted, now, options, handled, attempt, rw, lock, aw, stop_event, observer, stopped_count, caller,
                   sessions>>

\* lines 297-299: finally, an observer that is alive is stopped
SvcFinally ==
    /\ pc = "finally"
    /\ IF observer_is_alive(observer)
       THEN pc' = "joining" /\ observer' = [observer EXCEPT !.stopped = TRUE]
       ELSE pc' = "emit" /\ observer' = observer
    /\ UNCHANGED <<disk, reference_to_containers, container_to_references, write_cooldowns,
                   last_deleted, now, options, handled, attempt, rw, lock, aw, stop_event, last_signal, stopped_count,
                   caller, sessions>>

\* lines 300-301: and joined
SvcJoin ==
    /\ pc = "joining"
    /\ ~observer_is_alive(observer)
    /\ pc' = "emit"
    /\ UNCHANGED <<disk, reference_to_containers, container_to_references, write_cooldowns,
                   last_deleted, now, options, handled, attempt, rw, lock, aw, serviceVars>>

\* lines 302-303: watcherStopped, and the thread ends
SvcEmitStopped ==
    /\ pc = "emit"
    /\ last_signal' = "watcherStopped"
    /\ stopped_count' = stopped_count + 1
    /\ pc' = "dead"
    /\ UNCHANGED <<disk, reference_to_containers, container_to_references, write_cooldowns,
                   last_deleted, now, options, handled, attempt, rw, lock, aw, stop_event, observer, caller, sessions>>

\* an observer that hands events to the handler whether or not its thread runs
ObserverHandleBegin_unjoined(event) ==
    /\ ~observer.stopped
    /\ observer.handling = NoEvent
    /\ directory_move_rebuilds(IndexState, event, options)
    /\ \E r \in {dispatch(IndexState, last_deleted, event, options, linesep)} :
           /\ reference_to_containers' = r[1].rev
           /\ container_to_references' = r[1].fwd
           /\ disk' = r[1].disk
           /\ write_cooldowns' = r[1].cd
           /\ last_deleted' = r[2]
    /\ observer' = [observer EXCEPT !.handling = event]
    /\ last_signal' = "indexingStarted"
    /\ UNCHANGED <<now, options, pc, handled, attempt, rw, lock, aw, stop_event, stopped_count, caller,
                   sessions>>

\* the observer thread takes a directory move from its queue; the handler
\* patches the containers, emits indexingStarted and rebuilds, lines 216-246
ObserverHandleBegin(event) ==
    /\ observer.state = "alive"
    /\ ~observer.stopped
    /\ observer.handling = NoEvent
    /\ directory_move_rebuilds(IndexState, event, options)
    /\ \E r \in {dispatch(IndexState, last_deleted, event, options, linesep)} :
           /\ reference_to_containers' = r[1].rev
           /\ container_to_references' = r[1].fwd
           /\ disk' = r[1].disk
           /\ write_cooldowns' = r[1].cd
           /\ last_deleted' = r[2]
    /\ observer' = [observer EXCEPT !.handling = event]
    /\ last_signal' = "indexingStarted"
    /\ UNCHANGED <<now, options, pc, handled, attempt, rw, lock, aw, stop_event, stopped_count, caller,
                   sessions>>

\* line 247: indexingFinished is emitted and the handler returns
ObserverHandleEnd ==
    /\ observer.handling # NoEvent
    /\ handled' = observer.handling
    /\ observer' = [observer EXCEPT !.handling = NoEvent]
    /\ last_signal' = "indexingFinished"
    /\ UNCHANGED <<disk, reference_to_containers, container_to_references, write_cooldowns,
                   last_deleted, now, options, pc, attempt, rw, lock, aw, stop_event, stopped_count,
                   caller, sessions>>

\* the observer thread ends once it is told to and no handler runs
ObserverExit ==
    /\ observer.state = "alive"
    /\ observer.stopped
    /\ observer.handling = NoEvent
    /\ observer' = [observer EXCEPT !.state = "dead"]
    /\ UNCHANGED <<indexVars, attempt, rw, lock, aw, stop_event, last_signal, stopped_count, caller,
                   sessions>>

\* the steps of the thread of _run: at line 282 and at lines 288-291 it goes on
\* or it raises
RunThread ==
    \/ RunBegin
    \/ SvcCrash
    \/ SvcBuild
    \/ SvcContinue
    \/ SvcObserverStart
    \/ SvcLoopExit
    \/ SvcFinally
    \/ SvcJoin
    \/ SvcEmitStopped

ObserverThread ==
    \/ ObserverHandleEnd
    \/ ObserverExit

NextService ==
    \/ Start
    \/ StopSetEvent
    \/ StopObserver
    \/ StopJoin
    \/ RunThread
    \/ \E m \in DirMoves : ObserverHandleBegin(MovedEvent(m[1], m[2], TRUE))
    \/ ObserverThread

\* both threads are scheduled again and again; the GUI calls start and stop as
\* it likes, events arrive as they like
SpecService == InitService /\ [][NextService]_vars /\ WF_vars(RunThread) /\ WF_vars(ObserverThread)

----------------------------------------------------------------------------
(* Renames only: every content, every setting of the two key-expansion options *)

AllContents == { UserContents[i] : i \in DOMAIN UserContents }

\* renames of textures, by each texture extension of the model
TextureMoves == { <<WallDds, StoneDds>>, <<WallTif, StoneTif>>, <<WallTiff, StoneTiff>> }

RenameEvents == { MovedEvent(m[1], m[2], FALSE) : m \in FileMoves \cup TextureMoves }

RenameOptionSets ==
    { [DefaultOptions EXCEPT !.match_any_texture_extension = a, !.allow_ext_change = b] :
        a \in BOOLEAN, b \in BOOLEAN }

InitRename ==
    /\ disk \in [Files -> AllContents \cup {Absent}]
    /\ reference_to_containers = << >>
    /\ container_to_references = << >>
    /\ write_cooldowns = << >>
    /\ last_deleted = << >>
    /\ now = 0
    /\ options \in RenameOptionSets
    /\ pc = "indexing"
    /\ handled = NoEvent
    /\ NothingRunning
    /\ ServiceIndexing

NextRename ==
    \/ RunBuildIndex
    \/ \E event \in RenameEvents : Dispatch(event)

SpecRename == InitRename /\ [][NextRename]_vars

----------------------------------------------------------------------------
(* A second tree: the container lives in the directory it refers to *)

\* tex/mat.mtl, in a directory spelled "Tex" on disk, and where a rename puts it
TexMat  == <<"Tex", "/", "mat", ".mtl">>
ArtMat  == <<"art", "/", "mat", ".mtl">>

\* the temporary file an editor writes before it renames it over the container
TexTmp  == <<"Tex", "/", "mat", ".tmp">>

UpperTexDir == <<"Tex">>

TreeFiles == {TexMat, ArtMat}

\* the events of the second tree: saves, deletions and renames of the container,
\* the rename of its directory, an editor's rename-over-top, and an asset rename
TreeEvents ==
    { FileEvent(t, TexMat) : t \in {"created", "modified", "deleted"} }
    \cup { FileEvent("modified", ArtMat) }
    \cup { MovedEvent(TexMat, ArtMat, FALSE), MovedEvent(TexTmp, TexMat, FALSE),
            MovedEvent(UpperTexDir, ArtDir, TRUE), MovedEvent(WallDds, StoneDds, FALSE) }

InitTree ==
    /\ disk \in [TreeFiles -> Contents \cup {Absent}]
    /\ disk[ArtMat] = Absent
    /\ reference_to_containers = << >>
    /\ container_to_references = << >>
    /\ write_cooldowns = << >>
    /\ last_deleted = << >>
    /\ now = 0
    /\ options \in OptionSets
    /\ pc = "indexing"
    /\ handled = NoEvent
    /\ NothingRunning
    /\ ServiceIndexing

\* a user renames the container, or the directory that holds it
UserRename(src, dst) ==
    /\ disk[src] # Absent
    /\ disk[dst] = Absent
    /\ disk' = [disk EXCEPT ![src] = Absent, ![dst] = disk[src]]
    /\ handled' = NoEvent
    /\ UNCHANGED <<reference_to_containers, container_to_references, write_cooldowns,
                   last_deleted, now, options, pc>>
    /\ UNCHANGED <<attempt, rw, lock, aw, serviceVars>>

NextTree ==
    \/ \E content \in Contents : UserSave(TexMat, content)
    \/ UserDelete(TexMat)
    \/ UserRename(TexMat, ArtMat)
    \/ Tick
    \/ RunBuildIndex
    \/ \E event \in TreeEvents : Dispatch(event)

SpecTree == InitTree /\ [][NextTree]_vars

-----------------------------------------------------------------------------
(* Moves that arrive as a deleted event and a created event *)

ArtWall == <<"art", "/", "wall", ".dds">>

\* a texture is deleted and shows up again, at its own path or in another
\* directory, while containers are saved
ReconEvents ==
    { FileEvent("deleted", WallDds), FileEvent("created", ArtWall),
      FileEvent("created", WallDds) }
    \cup { FileEvent("modified", f) : f \in Files }

NextRecon ==
    \/ \E content \in Contents : UserSave(Mat, content)
    \/ Tick
    \/ RunBuildIndex
    \/ \E event \in ReconEvents : Dispatch(event)

SpecRecon == Init /\ [][NextRecon]_vars

-----------------------------------------------------------------------------
(* AssetHandler.rewrite of both handlers, statement by statement, with the
   atomic_write it calls *)

Script == <<"script", ".lua">>

\* a reference written with a blank after the opening quote
PaddedWall == <<" ", "tex", "/", "wall", ".dds">>

\* a reference into the directory tex2, which shares its first letters with tex
Tex2Wall == <<"tex", "2", "/", "wall", ".dds">>

Handlers == {"XmlAssetHandler", "LuaAssetHandler"}

\* the file each handler is called on
HandlerFile(handler) == IF handler = "LuaAssetHandler" THEN Script ELSE Level

RewriteContents ==
    { <<Attr(WallCase), Eol("CRLF")>>,
      <<Attr(PaddedWall), Text>>,
      <<Attr(Tex2Wall), Attr(WallDds)>>,
      <<Attr(DoorMtl), Eol("CRLF")>>,
      <<>> }

\* <<replacements, is_dir_move>> as update_asset_path and handle_directory_move pass them
RewriteArguments ==
    { <<{<<TexDir, ArtDir>>}, TRUE>>,
      <<{<<WallDds, StoneDds>>}, FALSE>>,
      <<{<<DoorMtl, GateMtl>>, <<Door, Gate>>}, FALSE>> }

RewriteFiles ==
    { HandlerFile(h) : h \in Handlers } \cup { temp_path(HandlerFile(h), "app") : h \in Handlers }

InitRewrite ==
    /\ disk \in { d \in [RewriteFiles -> RewriteContents \cup {Absent, Stale}] :
                    /\ \A h \in Handlers : d[HandlerFile(h)] # Stale
                    /\ \A h \in Handlers : d[temp_path(HandlerFile(h), "app")] \in {Absent, Stale}
                    /\ d[temp_path(Level, "app")] = d[temp_path(Script, "app")] }
    /\ reference_to_containers = << >>
    /\ container_to_references = << >>
    /\ write_cooldowns = << >>
    /\ last_deleted = << >>
    /\ now = 0
    /\ options = DefaultOptions
    /\ pc = "indexing"
    /\ handled = NoEvent
    /\ NothingRunning
    /\ ServiceIndexing

\* the call
RwCall(handler, file_path, replacements, is_dir_move) ==
    /\ rw = NoRewrite
    /\ aw = NoWrite
    /\ rw' = [pc |-> "read", handler |-> handler, file_path |-> file_path,
              replacements |-> replacements, is_dir_move |-> is_dir_move, before |-> disk]
    /\ UNCHANGED <<indexVars, attempt, lock, aw, serviceVars>>

\* read_text, the substitution and the comparison: a file that is gone raises,
\* a content that changed is handed to atomic_write
RwSubstitute ==
    /\ rw.pc = "read"
    /\ IF disk[rw.file_path] = Absent
       THEN rw' = [rw EXCEPT !.pc = "failed"] /\ aw' = aw
       ELSE LET original_content == read_text(disk[rw.file_path])
                new_content ==
                    IF rw.handler = "LuaAssetHandler"
                    THEN lua_sub(original_content, rw.replacements, rw.is_dir_move)
                    ELSE sub(original_content, rw.replacements, rw.is_dir_move)
            IN  IF content_changed(new_content, original_content)
                THEN /\ rw' = [rw EXCEPT !.pc = "writing"]
                     /\ aw' = [pc |-> "prepare", file_path |-> rw.file_path,
                               data |-> new_content, kind |-> "str", impl |-> "app",
                               old |-> disk[rw.file_path]]
                ELSE rw' = [rw EXCEPT !.pc = "done"] /\ aw' = aw
    /\ UNCHANGED <<indexVars, attempt, lock, serviceVars>>

\* atomic_write returned, or raised and the except block logged the failure
RwWritten ==
    /\ rw.pc = "writing"
    /\ aw.pc \in {"done", "raised"}
    /\ rw' = [rw EXCEPT !.pc = IF aw.pc = "done" THEN "done" ELSE "failed"]
    /\ aw' = NoWrite
    /\ UNCHANGED <<indexVars, attempt, lock, serviceVars>>

\* rewrite returns
RwReturn ==
    /\ rw.pc \in {"done", "failed"}
    /\ rw' = NoRewrite
    /\ UNCHANGED <<indexVars, attempt, lock, aw, serviceVars>>

NextRewrite ==
    \/ \E handler \in Handlers, a \in RewriteArguments :
          RwCall(handler, HandlerFile(handler), a[1], a[2])
    \/ RwSubstitute
    \/ AwPrepare
    \/ AwEnsure
    \/ AwReplace
    \/ AwExcept
    \/ RwWritten
    \/ RwReturn

SpecRewrite == InitRewrite /\ [][NextRewrite]_vars

-----------------------------------------------------------------------------
(* The watcher sees what atomic_write does to the temp file next to Mat *)

TempFiles == { temp_path(Mat, impl) : impl \in Implementations }

\* what the observer reports of a temp file: it is created, written, and
\* renamed onto the target
TempEvents ==
    { FileEvent(t, temp) : t \in {"created", "modified"}, temp \in TempFiles }
    \cup { MovedEvent(temp, Mat, FALSE) : temp \in TempFiles }

\* and what else it reports while files are written: the unlinked temp file, and
\* Mat deleted and modified
WriterEvents ==
    TempEvents
    \cup { FileEvent("deleted", temp) : temp \in TempFiles }
    \cup { FileEvent(t, Mat) : t \in {"modified", "deleted"} }

NextTemp ==
    \/ \E data \in Contents, impl \in Implementations : AwCall(Mat, data, "tree", impl)
    \/ AwPrepare
    \/ AwEnsure
    \/ AwReplace
    \/ AwExcept
    \/ AwReturn
    \/ Tick
    \/ RunBuildIndex
    \/ \E event \in WriterEvents : Dispatch(event)

SpecTemp == InitWrite /\ [][NextTemp]_vars

-----------------------------------------------------------------------------
(* The handlers on the observer thread, statement by statement, with the lock
   they take and the tables each statement reads and writes *)

LockEvents ==
    { FileEvent(t, Mat) : t \in {"modified", "deleted"} }
    \cup { MovedEvent(WallDds, StoneDds, FALSE) }

\* the handler is entered. on_modified, line 336, and on_deleted, line 348, call
\* is_on_cooldown first (on_deleted after it has recorded the deletion, line
\* 345); on_moved goes to update_asset_path, which reads no table up to line 181
HandlerEnter(event) ==
    /\ pc = "watching"
    /\ NothingRunning
    /\ handled' = event
    /\ IF event.type = "moved"
       THEN lock' = [Unlocked EXCEPT !.pc = "acquire", !.event = event]
       ELSE lock' = [Unlocked EXCEPT
                        !.pc = IF is_on_cooldown(IndexState, event.src_path)
                               THEN "return" ELSE "check",
                        !.event = event,
                        !.reads = {"_write_cooldowns"}]
    /\ last_deleted' = IF event.type = "deleted"
                       THEN Put(last_deleted, name(event.src_path), <<event.src_path, now>>)
                       ELSE last_deleted
    /\ UNCHANGED <<disk, reference_to_containers, container_to_references, write_cooldowns,
                   now, options, pc, attempt, aw, rw, serviceVars>>

\* process_container_file, line 105, and remove_container_from_index, line 132,
\* call is_on_cooldown once more
HandlerCheck ==
    /\ lock.pc = "check"
    /\ lock' = [lock EXCEPT
                   !.pc = IF is_on_cooldown(IndexState, lock.event.src_path) THEN "return"
                          ELSE IF lock.event.type = "modified" THEN "parse"
                          ELSE "acquire",
                   !.reads = {"_write_cooldowns"}]
    /\ UNCHANGED <<indexVars, attempt, aw, rw, serviceVars>>

\* process_container_file, lines 108-117: the file is parsed, and the call
\* returns when the parse gave nothing
HandlerParse ==
    /\ lock.pc = "parse"
    /\ LET result == index_parse_worker(disk, lock.event.src_path)
       IN  lock' = [lock EXCEPT !.pc = IF result.rel # <<>> /\ result.ok
                                       THEN "acquire" ELSE "return",
                                !.seen = disk,
                                !.reads = {}]
    /\ UNCHANGED <<indexVars, attempt, aw, rw, serviceVars>>

\* with self._lock, lines 119, 139 and 181
HandlerAcquire ==
    /\ lock.pc = "acquire"
    /\ ~lock.held
    /\ lock' = [lock EXCEPT !.pc = "locked", !.held = TRUE, !.reads = {}]
    /\ UNCHANGED <<indexVars, attempt, aw, rw, serviceVars>>

\* the body of the with statement: lines 120-129 store what the parse found,
\* lines 140-147 drop the container, lines 182-214 rewrite the affected
\* containers, set their cooldowns and move the entries
HandlerMutate ==
    /\ lock.pc = "locked"
    /\ \E S \in { CASE lock.event.type = "modified" ->
                         process_container_file([IndexState EXCEPT !.disk = lock.seen],
                                                lock.event.src_path)
                    [] lock.event.type = "deleted" ->
                         remove_container_from_index(IndexState, lock.event.src_path)
                    [] lock.event.type = "moved" ->
                         update_asset_path(IndexState, lock.event.src_path,
                                           lock.event.dest_path, options, linesep) } :
           /\ reference_to_containers' = S.rev
           /\ container_to_references' = S.fwd
           /\ write_cooldowns' = S.cd
           /\ disk' = IF lock.event.type = "moved" THEN S.disk ELSE disk
    /\ lock' = [lock EXCEPT
                   !.pc = "release",
                   !.reads = {"reference_to_containers", "container_to_references"},
                   !.writes = IF lock.event.type = "moved"
                              THEN {"reference_to_containers", "container_to_references",
                                    "_write_cooldowns"}
                              ELSE {"reference_to_containers", "container_to_references"}]
    /\ UNCHANGED <<last_deleted, now, options, pc, handled, attempt, aw, rw, serviceVars>>

\* the with statement is left
HandlerRelease ==
    /\ lock.pc = "release"
    /\ lock' = [lock EXCEPT !.pc = "return", !.held = FALSE, !.reads = {}, !.writes = {}]
    /\ UNCHANGED <<indexVars, attempt, aw, rw, serviceVars>>

\* the handler returns to the observer
HandlerReturn ==
    /\ lock.pc = "return"
    /\ lock' = Unlocked
    /\ UNCHANGED <<indexVars, attempt, aw, rw, serviceVars>>

\* an editor saves Mat while the handler runs or waits
EditorSave(content) ==
    /\ disk' = [disk EXCEPT ![Mat] = content]
    /\ UNCHANGED <<reference_to_containers, container_to_references, write_cooldowns,
                   last_deleted, now, options, pc, handled, attempt, aw, rw, lock, serviceVars>>

NextLock ==
    \/ RunBuildIndex
    \/ \E content \in Contents : EditorSave(content)
    \/ \E event \in LockEvents : HandlerEnter(event)
    \/ HandlerCheck
    \/ HandlerParse
    \/ HandlerAcquire
    \/ HandlerMutate
    \/ HandlerRelease
    \/ HandlerReturn

SpecLock == Init /\ [][NextLock]_vars

----------------------------------------------------------------------------------------------------------------------------------------------------
(* What the claims speak of *)

\* the forward map that re-parsing every container on disk yields
ReparsedForward(d) ==
    [c \in { f \in DOMAIN d : Readable(d, f) } |-> parse(d[c])]

\* the reverse map that goes with a forward map
ReverseOf(fwd) ==
    [r \in UNION { fwd[c] : c \in DOMAIN fwd } |-> { c \in DOMAIN fwd : r \in fwd[c] }]

\* the index holds exactly what the containers on disk hold
InSync ==
    /\ container_to_references = ReparsedForward(disk)
    /\ reference_to_containers = ReverseOf(container_to_references)

\* the step is the dispatch of a rename of the file a to b
IsRename(a, b) == handled' = MovedEvent(a, b, FALSE)

\* content with b written at each place that holds a reference to a
Renamed(content, a, b) ==
    [i \in DOMAIN content |->
        IF content[i].k = "attr" /\ lower(strip(content[i].v)) = lower(a)
        THEN Attr(b) ELSE content[i]]

\* the containers whose content on disk refers to a
Referring(d, a) ==
    { c \in DOMAIN d : d[c] # Absent /\ \E i \in DOMAIN d[c] :
                          d[c][i].k = "attr" /\ lower(strip(d[c][i].v)) = lower(a) }

----------------------------------------------------------------------------
(* Properties *)

\* C1: a container c is in reference_to_containers[r] if and only if r is in
\* container_to_references[c], in every reachable state
BidirectionalConsistency ==
    /\ \A r \in DOMAIN reference_to_containers : \A c \in reference_to_containers[r] :
          c \in DOMAIN container_to_references /\ r \in container_to_references[c]
    /\ \A c \in DOMAIN container_to_references : \A r \in container_to_references[c] :
          r \in DOMAIN reference_to_containers /\ c \in reference_to_containers[r]

\* C1 witness: a rename has moved a reverse entry that holds both containers
SharedEntryRenamed ==
    /\ handled = MovedEvent(WallDds, StoneDds, FALSE)
    /\ StoneDds \in DOMAIN reference_to_containers
    /\ reference_to_containers[StoneDds] = {Mat, Level}
    /\ StoneDds \in container_to_references[Mat]

\* C2: no key of the reverse map is mapped to the empty set
NoEmptyReverseEntry ==
    \A r \in DOMAIN reference_to_containers : reference_to_containers[r] # {}

\* C2 witness: Mat was dropped while Level is indexed, and the references only Mat
\* holds on disk have no reverse entry
LastContainerDropped ==
    /\ handled = FileEvent("deleted", Mat)
    /\ Mat \notin DOMAIN container_to_references
    /\ Level \in DOMAIN container_to_references
    /\ Readable(disk, Mat)
    /\ parse(disk[Mat]) # {}
    /\ \A r \in parse(disk[Mat]) : r \notin DOMAIN reference_to_containers

\* C3: outside a dry run, a rename dispatched while the index holds what the disk holds leaves an
\* index that re-parsing every container on disk yields
RenameKeepsIndexFaithful ==
    [][\A m \in FileMoves :
         (~options.dry_run /\ InSync /\ IsRename(m[1], m[2])) => InSync']_vars

\* C4: outside a dry run, after the rename of a referenced asset a to b, each container that referred
\* to a holds b at those places and is otherwise unchanged, and the reverse map has
\* an entry for b with those containers and none for a
SimpleRename ==
    [][\A m \in FileMoves :
         (~options.dry_run /\ InSync /\ IsRename(m[1], m[2]) /\ Referring(disk, m[1]) # {}) =>
            /\ \A c \in Referring(disk, m[1]) : disk'[c] = Renamed(disk[c], m[1], m[2])
            /\ lower(m[2]) \in DOMAIN reference_to_containers'
            /\ Referring(disk, m[1]) \subseteq reference_to_containers'[lower(m[2])]
            /\ lower(m[1]) \notin DOMAIN reference_to_containers']_vars

\* C5: outside a dry run, after the rename of mats/door.mtl to mats/gate.mtl, a container that held
\* Material="mats/door" holds Material="mats/gate"
ExtensionlessMaterialRenamed ==
    [][(~options.dry_run /\ InSync /\ IsRename(DoorMtl, GateMtl)) =>
         \A c \in Referring(disk, Door) : disk'[c] = Renamed(disk[c], Door, Gate)]_vars

\* C6: with dry_run set, a rename changes no container on disk and neither map
DryRunChangesNothing ==
    [][\A m \in FileMoves :
         (options.dry_run /\ IsRename(m[1], m[2])) =>
            UNCHANGED <<disk, reference_to_containers, container_to_references>>]_vars

\* C7: a deleted event for a container that is on disk (it was saved over) takes
\* the container out of no reverse entry
SaveLosesNoReference ==
    [][\A c \in Files :
         (handled' = FileEvent("deleted", c) /\ disk[c] # Absent) =>
            \A r \in DOMAIN reference_to_containers :
               c \in reference_to_containers[r] =>
                  r \in DOMAIN reference_to_containers' /\ c \in reference_to_containers'[r]]_vars

\* C8: an event on a path whose cooldown deadline is in the future changes neither
\* map, nor the pending deletions, nor a file on disk
CooldownIgnoresEvents ==
    [][\A e \in Events :
         (handled' = e /\ now < CooldownOf(write_cooldowns, e.src_path)) =>
            UNCHANGED <<reference_to_containers, container_to_references, last_deleted, disk>>]_vars

\* C9: a modified event on a container whose cooldown deadline is in the future
\* changes neither map, whatever the container holds on disk
CooldownIgnoresModified ==
    [][\A p \in Files :
         (handled' = FileEvent("modified", p) /\ now < CooldownOf(write_cooldowns, p)) =>
            UNCHANGED <<reference_to_containers, container_to_references>>]_vars

\* C9 witness: a modified event was dispatched for a container on cooldown whose
\* content on disk is not what the index holds for it
ModifiedDuringCooldown ==
    /\ handled = FileEvent("modified", Mat)
    /\ now < CooldownOf(write_cooldowns, Mat)
    /\ Readable(disk, Mat)
    /\ Mat \in DOMAIN container_to_references
    /\ container_to_references[Mat] # parse(disk[Mat])

\* C10: outside a dry run, the rename of a to b followed by the rename of b to a gives back both maps
\* and the content of every container
RenameRoundTrip ==
    [][\A m \in FileMoves :
         (~options.dry_run /\ InSync /\ IsRename(m[1], m[2])) =>
            LET back == on_moved(IndexState', last_deleted',
                                 MovedEvent(m[2], m[1], FALSE), options, linesep)[1]
            IN  /\ back.disk = disk
                /\ back.rev = reference_to_containers
                /\ back.fwd = container_to_references]_vars

\* the step is the dispatch of a rename of the directory a to b
IsDirRename(a, b) == handled' = MovedEvent(a, b, TRUE)

\* the reference value v lies under the directory dir
Under(v, dir) == startswith(lower(strip(v)), lower(dir) \o <<"/">>)

\* the containers whose content on disk holds a reference under dir
ReferringUnder(d, dir) ==
    { c \in DOMAIN d : d[c] # Absent /\ \E i \in DOMAIN d[c] :
                          RegexMatches(d[c][i]) /\ Under(d[c][i].v, dir) }

\* C11, for containers that lie outside the renamed directory: outside a dry run
\* and with allow_dir_change on, after the rename of the directory old to new each
\* reference under old/ of every container that held one
\* is under new/ with the rest of the reference kept, the index is what a rebuild
\* from disk yields, and no key of the reverse map is under old/
DirectoryRename ==
    [][\A m \in DirMoves :
         (/\ options.allow_dir_change /\ ~options.dry_run /\ InSync
          /\ IsDirRename(m[1], m[2]) /\ ReferringUnder(disk, m[1]) # {}) =>
            /\ \A c \in ReferringUnder(disk, m[1]) :
                  /\ Len(disk'[c]) = Len(disk[c])
                  /\ \A i \in DOMAIN disk[c] :
                        (RegexMatches(disk[c][i]) /\ Under(disk[c][i].v, m[1])) =>
                           disk'[c][i] = Attr(m[2] \o SubSeq(disk[c][i].v, Len(m[1]) + 1,
                                                              Len(disk[c][i].v)))
            /\ InSync'
            /\ \A r \in DOMAIN reference_to_containers' : ~Under(r, m[1])]_vars

\* C11: as DirectoryRename, for a tree whose container lies in the renamed directory:
\* after the directory rename event the container, now at its new path, holds no
\* reference under old/ and no key of the reverse map is under old/
DirectoryRenameInside ==
    [][(/\ options.allow_dir_change /\ ~options.dry_run
        /\ IsDirRename(UpperTexDir, ArtDir)
        /\ disk[TexMat] = Absent /\ Readable(disk, ArtMat)
        /\ TexMat \in DOMAIN container_to_references
        /\ container_to_references[TexMat] = parse(disk[ArtMat])
        /\ \E r \in container_to_references[TexMat] : Under(r, UpperTexDir)) =>
           /\ \A i \in DOMAIN disk'[ArtMat] :
                 RegexMatches(disk'[ArtMat][i]) => ~Under(disk'[ArtMat][i].v, UpperTexDir)
           /\ \A r \in DOMAIN reference_to_containers' : ~Under(r, UpperTexDir)]_vars

\* the path without its extension, lower-cased
Stem(v) == lower(with_suffix(strip(v), ""))

\* C12: with match_any_texture_extension and allow_ext_change on, after the rename of a texture a.X to
\* b.X each reference to the stem a written with another texture extension holds the
\* stem b with its own extension, and each reference to another stem is unchanged
TextureAliasRename ==
    [][\A m \in TextureMoves :
         (/\ options.match_any_texture_extension /\ options.allow_ext_change
          /\ InSync /\ IsRename(m[1], m[2])) =>
            \A c \in { f \in DOMAIN disk : disk[f] # Absent } :
               /\ Len(disk'[c]) = Len(disk[c])
               /\ \A i \in DOMAIN disk[c] :
                     LET v == disk[c][i].v
                     IN  disk[c][i].k = "attr" =>
                           IF /\ Stem(v) = Stem(m[1])
                              /\ Lower(suffix(v)) \in TEXTURE_EXTENSIONS \ {suffix(m[1])}
                           THEN disk'[c][i] = Attr(with_suffix(m[2], suffix(v)))
                           ELSE Stem(v) # Stem(m[1]) => disk'[c][i] = disk[c][i]]_vars

\* C13: when the rewrite of a container affected by a rename fails (the file is
\* gone from disk, so reading it raises), the file is left as it is, the forward
\* entry of the container is unchanged and the container is still listed under the
\* old reverse key
RewriteFailureKeepsIndex ==
    [][\A m \in FileMoves : \A c \in Files :
         (/\ IsRename(m[1], m[2]) /\ ~options.dry_run
          /\ lower(m[1]) \in DOMAIN reference_to_containers
          /\ c \in reference_to_containers[lower(m[1])]
          /\ disk[c] = Absent) =>
            /\ disk'[c] = disk[c]
            /\ c \in DOMAIN container_to_references'
            /\ container_to_references'[c] = container_to_references[c]
            /\ lower(m[1]) \in DOMAIN reference_to_containers'
            /\ c \in reference_to_containers'[lower(m[1])]]_vars

\* the step dispatches an event that reports the container c as written: it was
\* created, modified, or moved to c
Reports(c) ==
    \/ handled' = FileEvent("created", c)
    \/ handled' = FileEvent("modified", c)
    \/ \E e \in TreeEvents : handled' = e /\ e.type = "moved" /\ ~e.is_directory /\ e.dest_path = c

\* C15: once the event for a container that is on disk has been dispatched while
\* no cooldown is active, its forward entry is the reference set parsed from its
\* content (the empty set for empty content); once the deleted event for a container
\* that is gone has been dispatched, it has no forward entry
SteadyStateFaithful ==
    [][\A c \in TreeFiles :
         /\ (/\ Reports(c) /\ disk[c] # Absent
             /\ \A p \in DOMAIN write_cooldowns : now >= write_cooldowns[p]) =>
               /\ c \in DOMAIN container_to_references'
               /\ container_to_references'[c] = parse(disk'[c])
         /\ (/\ handled' = FileEvent("deleted", c) /\ disk[c] = Absent
             /\ \A p \in DOMAIN write_cooldowns : now >= write_cooldowns[p]) =>
               c \notin DOMAIN container_to_references']_vars

\* C16: after the moved event of the container src to dst, dst not on cooldown and
\* the file at dst, src has no forward entry and is in no reverse entry, and the
\* forward entry of dst is the reference set parsed from dst, whether or not src is
\* on cooldown
MovedContainer ==
    [][(/\ handled' = MovedEvent(TexMat, ArtMat, FALSE)
        /\ now >= CooldownOf(write_cooldowns, ArtMat)
        /\ disk[TexMat] = Absent /\ Readable(disk, ArtMat)) =>
           /\ TexMat \notin DOMAIN container_to_references'
           /\ \A r \in DOMAIN reference_to_containers' : TexMat \notin reference_to_containers'[r]
           /\ ArtMat \in DOMAIN container_to_references'
           /\ container_to_references'[ArtMat] = parse(disk'[ArtMat])]_vars

\* C18: with allow_ext_change off, a rename of a to b rewrites no reference that is
\* written otherwise than a (another texture extension, no extension), and in the
\* reverse map it touches no key but those of a and b
ExactExtensionOnly ==
    [][\A m \in FileMoves \cup TextureMoves :
         (~options.allow_ext_change /\ InSync /\ IsRename(m[1], m[2])) =>
            /\ \A c \in { f \in DOMAIN disk : disk[f] # Absent } :
                  /\ Len(disk'[c]) = Len(disk[c])
                  /\ \A i \in DOMAIN disk[c] :
                        (disk[c][i].k = "attr" /\ lower(strip(disk[c][i].v)) # lower(m[1])) =>
                           disk'[c][i] = disk[c][i]
            /\ DOMAIN reference_to_containers' \subseteq
                  DOMAIN reference_to_containers \cup {lower(m[2])}
            /\ \A r \in DOMAIN reference_to_containers \ {lower(m[1]), lower(m[2])} :
                  /\ r \in DOMAIN reference_to_containers'
                  /\ reference_to_containers'[r] = reference_to_containers[r]]_vars

\* C19: every key of both maps, and every container listed in a reverse entry, is
\* a lower-case path
LowercaseKeys ==
    /\ \A c \in DOMAIN container_to_references :
          /\ c = lower(c)
          /\ \A r \in container_to_references[c] : r = lower(r)
    /\ \A r \in DOMAIN reference_to_containers :
          /\ r = lower(r)
          /\ \A c \in reference_to_containers[r] : c = lower(c)

\* C20: an upsert makes at most ten passes over a file it cannot read and then
\* returns; a pass that cannot read the file and the end of the loop leave both
\* maps as they are, and the first pass that can read it stores what the file holds
UpsertRetries ==
    /\ [](attempt.pass <= MaxAttempts + 1)
    /\ (attempt.pass > 0 ~> attempt = NoParse)
    /\ [][attempt.pass > 0 /\ attempt' # attempt =>
            IF Readable(disk, attempt.file_path) /\ attempt.pass <= MaxAttempts
            THEN /\ attempt' = NoParse
                 /\ attempt.file_path \in DOMAIN container_to_references'
                 /\ container_to_references'[attempt.file_path]
                        = parse(disk[attempt.file_path])
            ELSE /\ attempt'.pass \in {0, attempt.pass + 1}
                 /\ attempt'.pass = 0 <=> attempt.pass > MaxAttempts
                 /\ UNCHANGED <<reference_to_containers, container_to_references>>]_vars

\* ten passes failed and the index still holds the references of the file
UpsertGaveUp ==
    /\ attempt.pass = MaxAttempts + 1
    /\ attempt.file_path \in DOMAIN container_to_references
    /\ container_to_references[attempt.file_path] # {}
    /\ ~Readable(disk, attempt.file_path)

WatcherStops ==
    /\ (stop_event /\ is_alive ~> last_signal = "watcherStopped")
    /\ [](stopped_count <= 1)
    /\ [](pc = "dead" => stopped_count = 1 /\ last_signal = "watcherStopped")
    /\ [](last_signal = "watcherStopped" =>
             ~observer_is_alive(observer) /\ observer.handling = NoEvent)
    /\ [][last_signal = "watcherStopped" =>
             last_signal' = "watcherStopped" \/ sessions' = sessions + 1]_vars

\* a stop came while a directory move was being handled: the handler finished,
\* the observer ended, and the session emitted watcherStopped
WatcherStopped ==
    /\ pc = "dead"
    /\ stop_event
    /\ last_signal = "watcherStopped"
    /\ stopped_count = 1
    /\ observer.state = "dead"
    /\ handled.is_directory

\* the step is the dispatch of the created event of the file p
IsCreated(p) == handled' = FileEvent("created", p)

\* a deletion of a file with the basename of p is pending and younger than 1 s
PendingYoung(p) ==
    /\ name(p) \in DOMAIN last_deleted
    /\ now - last_deleted[name(p)][2] < T_MOVE_RECON

\* C21: a created event is handled as a rename of the pending deleted path if and
\* only if a deletion with the same basename was recorded less than 1 s before:
\* then every container indexed under the deleted path is patched (it gets its
\* cooldown) and the pending entry is used up; otherwise, also with an entry
\* older than 1 s, no file is written, no cooldown is set and the pending
\* entries stay
MoveReconstruction ==
    [][\A p \in {ArtWall, WallDds} : IsCreated(p) =>
         IF PendingYoung(p)
         THEN /\ name(p) \notin DOMAIN last_deleted'
              /\ LET old == lower(last_deleted[name(p)][1])
                 IN  old \in DOMAIN reference_to_containers =>
                        \A c \in reference_to_containers[old] :
                           /\ c \in DOMAIN write_cooldowns'
                           /\ write_cooldowns'[c] = now + T_COOLDOWN
         ELSE UNCHANGED <<disk, write_cooldowns, last_deleted>>]_vars

\* the texture was deleted and created in another directory within a second,
\* and the container that referred to it holds the new path
MoveReconstructed ==
    /\ handled = FileEvent("created", ArtWall)
    /\ Mat \in DOMAIN write_cooldowns
    /\ \E i \in DOMAIN disk[Mat] : disk[Mat][i] = Attr(ArtWall)

\* C27: a texture deleted and created again at the same path within 1 s leaves
\* the rest of the project alone: no container is written, no cooldown is
\* set, and both maps are what they were
RecreatedInPlace ==
    [][(/\ IsCreated(WallDds)
        /\ PendingYoung(WallDds)
        /\ last_deleted[name(WallDds)][1] = WallDds) =>
         UNCHANGED <<disk, write_cooldowns, reference_to_containers,
                     container_to_references>>]_vars

\* the value v, read as a reference, is one the call is to replace
KeyMatches(v, replacements, is_dir_move) ==
    \E r \in replacements :
        IF is_dir_move THEN startswith(lower(strip(v)), lower(r[1]) \o <<"/">>)
        ELSE lower(strip(v)) = lower(r[1])

\* what a directory move is to leave at the place of the token tok
Moved(tok, old_dir, new_dir) ==
    IF RegexMatches(tok) /\ Under(tok.v, old_dir)
    THEN Attr(new_dir \o SubSeq(strip(tok.v), Len(old_dir) + 1, Len(strip(tok.v))))
    ELSE tok

\* the rewrite call of the handler h has returned after a directory move of a
\* file that was there, the write done
DirMoveDone(h) ==
    /\ rw # NoRewrite
    /\ rw.pc = "done"
    /\ rw.is_dir_move
    /\ rw.handler = h
    /\ rw.before[rw.file_path] # Absent

\* C25: after a rewrite with is_dir_move, of either handler, each reference
\* whose lower-case form begins with old_dir.lower() + "/" is new_dir followed
\* by the rest of the reference in its own case, and everything else in the
\* file is what it was, line endings apart
DirMoveSubstitution ==
    \A h \in Handlers : DirMoveDone(h) =>
        \A r \in rw.replacements :
            /\ DOMAIN disk[rw.file_path] = DOMAIN rw.before[rw.file_path]
            /\ \A i \in DOMAIN disk[rw.file_path] :
                  LET tok == rw.before[rw.file_path][i]
                  IN  tok.k # "eol" => disk[rw.file_path][i] = Moved(tok, r[1], r[2])

\* C25 for the attribute handler alone
DirMoveSubstitutionXml ==
    DirMoveDone("XmlAssetHandler") =>
        \A r \in rw.replacements :
            /\ DOMAIN disk[rw.file_path] = DOMAIN rw.before[rw.file_path]
            /\ \A i \in DOMAIN disk[rw.file_path] :
                  LET tok == rw.before[rw.file_path][i]
                  IN  tok.k # "eol" => disk[rw.file_path][i] = Moved(tok, r[1], r[2])

\* no reference of the file the call is about is one the call is to replace
NoReferenceMatches ==
    LET content == rw.before[rw.file_path]
    IN  content # Absent =>
           \A i \in DOMAIN content :
              RegexMatches(content[i]) =>
                 ~KeyMatches(content[i].v, rw.replacements, rw.is_dir_move)

\* C26: a rewrite of a file none of whose references matches the replacement
\* map never calls atomic_write: no temp file is created or replaced, and the
\* target and every other file stay byte for byte what they were
WriteOnlyIfChanged ==
    (rw # NoRewrite /\ NoReferenceMatches) => (aw = NoWrite /\ disk = rw.before)

\* the rewrite of a file with CRLF line endings and no matching reference
\* has returned
RewriteSkipped ==
    /\ rw # NoRewrite
    /\ rw.pc = "done"
    /\ NoReferenceMatches
    /\ rw.before[rw.file_path] = <<Attr(DoorMtl), Eol("CRLF")>>
    /\ rw.is_dir_move

\* the step runs build_index: the initial build, or the rebuild at the end of
\* a directory move
Rebuilds ==
    \/ pc = "indexing" /\ pc' = "watching"
    \/ \E m \in DirMoves :
          /\ handled' = MovedEvent(m[1], m[2], TRUE)
          /\ directory_move_rebuilds(IndexState, handled', options)

\* no entry of either map names a container that is not on disk
OnlyContainersOnDisk ==
    /\ \A c \in DOMAIN container_to_references : DiskAt(disk, c) # Absent
    /\ \A r \in DOMAIN reference_to_containers :
          \A c \in reference_to_containers[r] : DiskAt(disk, c) # Absent

\* C23: when build_index has run, no entry is left for a container that is not
\* on disk, also when no container file was found at all, and running it once
\* more yields the same index
RebuildFromDisk ==
    [][Rebuilds => /\ OnlyContainersOnDisk'
                   /\ \E S \in {IndexState'} : build_index(S) = S]_vars

\* C23, its parts: running build_index once more yields the same index
RebuildIdempotent ==
    [][Rebuilds => \E S \in {IndexState'} : build_index(S) = S]_vars

\* C23, its parts: when build_index has found a container file, no entry is
\* left for a container that is not on disk
RebuildFromDiskNonEmpty ==
    [][(Rebuilds /\ \E c \in DOMAIN disk' : disk'[c] # Absent) => OnlyContainersOnDisk']_vars

\* the step is the dispatch of an event: no write moves on, no time passes, and
\* the index is built
Dispatched == aw' = aw /\ now' = now /\ pc' = pc

\* C30: an event of the temp file of atomic_write (created or modified on the
\* temp file, moved from the temp file onto the target) leaves the maps, the
\* pending deletions, the files and the cooldowns as they are
TempFileEventsIgnored ==
    [][(handled' \in TempEvents /\ Dispatched) =>
          UNCHANGED <<reference_to_containers, container_to_references, last_deleted,
                      disk, write_cooldowns>>]_vars

\* atomic_write has replaced an indexed Mat by other content, a deletion is
\* pending, and the move of the temp file onto Mat has been dispatched
TempFileMoved ==
    /\ handled \in { MovedEvent(temp, Mat, FALSE) : temp \in TempFiles }
    /\ aw # NoWrite
    /\ aw.pc = "done"
    /\ disk[Mat] # aw.old
    /\ Mat \in DOMAIN container_to_references
    /\ last_deleted # << >>

\* C28: a handler runs only once the run thread has passed the build and
\* observer.start(); the observer is started only from line 291, after
\* indexingFinished; and when the stop request is set as the build returns, then
\* for the rest of that session the observer is never started, no handler runs
\* and indexingFinished is not emitted
EventsAfterBuild ==
    /\ [](observer.handling # NoEvent => pc \in {"watching", "finally", "joining"})
    /\ [][(~observer_is_alive(observer) /\ observer_is_alive(observer)') =>
             pc = "starting" /\ last_signal = "indexingFinished"]_vars
    /\ \A n \in 1..MaxSessions :
          [](pc = "built" /\ stop_event /\ sessions = n =>
                [](sessions = n => /\ observer.state = "new"
                                   /\ observer.handling = NoEvent
                                   /\ last_signal # "indexingFinished"))

\* the stop request came during the build: the run thread has returned from
\* line 284 with the observer never started and indexingFinished not emitted
StoppedDuringBuild ==
    /\ pc = "finally"
    /\ stop_event
    /\ last_signal = "indexingStarted"
    /\ observer.state = "new"
    /\ container_to_references # << >>

\* C29: once a session has emitted watcherStopped, it changes no file, no
\* cooldown and neither map any more, and at that moment the observer thread
\* has ended with no handler in flight, whether the run thread came through the
\* loop or through the except clause
QuietAfterStopped ==
    /\ [][(stopped_count > 0 /\ sessions' = sessions) =>
             UNCHANGED <<disk, write_cooldowns, reference_to_containers,
                         container_to_references>>]_vars
    /\ [](stopped_count > 0 => observer.state \in {"new", "dead"} /\ observer.handling = NoEvent)
    /\ [][(pc = "emit" /\ pc' = "dead") =>
             observer.state \in {"new", "dead"} /\ observer.handling = NoEvent]_vars

\* a session whose handler rewrote a container has been stopped: the observer
\* thread was joined and watcherStopped is out
StoppedAfterRewrite ==
    /\ stopped_count = 1
    /\ pc = "dead"
    /\ observer.state = "dead"
    /\ observer.handling = NoEvent
    /\ write_cooldowns # << >>
    /\ caller = "idle"

\* the containers the index lists under the old paths of the rename m
Affected(m) ==
    LET old_variants == { lower(r[1]) : r \in Replacements(m[1], m[2], options) }
    IN  UNION { reference_to_containers[v] :
                  v \in old_variants \cap DOMAIN reference_to_containers }

AllUnderLock ==
    (lock.reads \cup lock.writes) # {} => lock.held

\* C24, its parts: whenever a statement of a handler writes one of the maps or
\* the cooldown table, and whenever it reads one of the maps, the handler holds
\* _lock
WritesUnderLock ==
    (lock.writes # {} \/ lock.reads \cap {"reference_to_containers",
                                          "container_to_references"} # {}) => lock.held

====
